---- MODULE Spec2Model ----
(***************************************************************************)
(* Model of opm/output/eclipse/EclipseReader.cpp: init_from_restart_file   *)
(* and its two helpers restoreSOLUTION and restoreOPM_XWEL.                *)
(*                                                                         *)
(* The restart file is a record store: a map from keyword to a typed       *)
(* array.  The per-cell keywords hold floats, OPM_XWEL holds doubles.      *)
(* The call is a straight line of four steps (open, select report step,    *)
(* restore the solution, restore the wells); pc is the position in it.     *)
(***************************************************************************)
EXTENDS Integers, Sequences, FiniteSets, TLC

\* Largest element count of a per-cell record, and largest numcells.
MaxLen == 2
\* Largest number of wells / phases, and largest OPM_XWEL element count.
MaxWells == 2
MaxPhases == 3
MaxXwel == 14

(***************************************************************************)
(* The record store                                                        *)
(***************************************************************************)
MandatoryKeys == << "PRESSURE", "TEMP", "SWAT", "SGAS" >>
OptionalKeys == { "RS", "RV" }
CellKeys == { MandatoryKeys[i] : i \in 1..Len(MandatoryKeys) } \cup OptionalKeys

\* A keyword that is not in the file.
Absent == -1

\* file[key] is Absent or the element count of the keyword.
ecl_file_has_kw(file, key) == file[key] # Absent
ecl_kw_get_size(file, key) == file[key]

KeyCode(key) ==
    CASE key = "PRESSURE" -> 1
      [] key = "TEMP"     -> 2
      [] key = "SWAT"     -> 3
      [] key = "SGAS"     -> 4
      [] key = "RS"       -> 5
      [] key = "RV"       -> 6

\* The i-th raw value of a per-cell keyword: distinct for every keyword and index.
RawValue(key, i) == 10 * KeyCode(key) + i

ecl_kw_get_float_ptr(file, key) ==
    [ i \in 1..ecl_kw_get_size(file, key) |-> RawValue(key, i) ]

\* The i-th double of OPM_XWEL (i counted from 1).
XwelValue(i) == 100 + i

ecl_kw_get_double_ptr(xw) == [ i \in 1..xw |-> XwelValue(i) ]

(***************************************************************************)
(* Unit conversion (opm-parser's ConversionFactors): a table of factors,   *)
(* one per dimension, and to_si multiplying by the factor.                 *)
(***************************************************************************)
metric2si == [ pressure |-> 100, temperature |-> 3 ]
field2si  == [ pressure |-> 69,  temperature |-> 5 ]

to_si(table, d, x) == x * table[d]

conv_table(unitType) ==
    IF unitType = "METRIC" THEN metric2si ELSE field2si

(***************************************************************************)
(* restoreSOLUTION                                                         *)
(***************************************************************************)
NoError == [ kind |-> "none", name |-> "" ]
None == << >>
Some(x) == << x >>

SetMin(S) == CHOOSE x \in S : \A y \in S : x <= y

SetMax(S) == CHOOSE x \in S : \A y \in S : x >= y

\* FirstMissing reporting the last absent keyword instead of the first.
FirstMissingLast(file) ==
    LET miss == { i \in 1..Len(MandatoryKeys) :
                    ~ecl_file_has_kw(file, MandatoryKeys[i]) }
    IN  IF miss = {} THEN 0 ELSE SetMax(miss)

\* Index in MandatoryKeys of the first keyword the file lacks, 0 if none.
FirstMissing(file) ==
    LET miss == { i \in 1..Len(MandatoryKeys) :
                    ~ecl_file_has_kw(file, MandatoryKeys[i]) }
    IN  IF miss = {} THEN 0 ELSE SetMin(miss)

\* struct keyword: the keyword's size, data and name.
keyword(file, nm) ==
    [ size |-> ecl_kw_get_size(file, nm),
      data |-> ecl_kw_get_float_ptr(file, nm),
      name |-> nm ]

\* FirstMismatch with the comparison size > numcells in place of size != numcells.
FirstOversized(file, numcells) ==
    LET bad == { i \in 1..Len(MandatoryKeys) :
                    keyword(file, MandatoryKeys[i]).size > numcells }
    IN  IF bad = {} THEN 0 ELSE SetMin(bad)

\* Index of the first of { pres, temp, swat, sgas } whose size is not numcells.
FirstMismatch(file, numcells) ==
    LET bad == { i \in 1..Len(MandatoryKeys) :
                    keyword(file, MandatoryKeys[i]).size # numcells }
    IN  IF bad = {} THEN 0 ELSE SetMin(bad)

\* data::Solution::insert
Insert(sol, key, data) ==
    [ k \in (DOMAIN sol) \cup { key } |-> IF k = key THEN data ELSE sol[k] ]

apply_pressure(table, x) == to_si(table, "pressure", x)
\* apply_temperature converting in the pressure dimension.
apply_temperature_as_pressure(table, x) == to_si(table, "pressure", x)
apply_temperature(table, x) == to_si(table, "temperature", x)

\* The four mandatory fields, PRESSURE and TEMP converted in place.
MandatoryFields(file, table) ==
    LET pres == keyword(file, "PRESSURE")
        temp == keyword(file, "TEMP")
        swat == keyword(file, "SWAT")
        sgas == keyword(file, "SGAS")
        s1 == Insert(<< >>, "PRESSURE", pres.data)
        s2 == Insert(s1, "TEMP", temp.data)
        s3 == Insert(s2, "SWAT", swat.data)
        s4 == Insert(s3, "SGAS", sgas.data)
    IN  [ s4 EXCEPT
            !["PRESSURE"] = [ i \in DOMAIN @ |-> apply_pressure(table, @[i]) ],
            !["TEMP"]     = [ i \in DOMAIN @ |-> apply_temperature(table, @[i]) ] ]

\* InsertOptional without the ecl_file_has_kw guard.
InsertOptionalUnguarded(sol, file, key) ==
    Insert(sol, key, keyword(file, key).data)

\* The optional keyword, copied when the file has it.
InsertOptional(sol, file, key) ==
    IF ecl_file_has_kw(file, key)
    THEN Insert(sol, key, keyword(file, key).data)
    ELSE sol

\* The store accesses restoreSOLUTION makes, in order.
SolutionAccesses(file, numcells) ==
    LET fm == FirstMissing(file)
        nhas == IF fm = 0 THEN Len(MandatoryKeys) ELSE fm
        has == [ i \in 1..nhas |-> << "has", MandatoryKeys[i] >> ]
        get == [ i \in 1..Len(MandatoryKeys) |-> << "get", MandatoryKeys[i] >> ]
        opt(key) == IF ecl_file_has_kw(file, key)
                    THEN << << "has", key >>, << "get", key >> >>
                    ELSE << << "has", key >> >>
    IN  IF fm # 0 THEN has
        ELSE IF FirstMismatch(file, numcells) # 0 THEN has \o get
        ELSE has \o get \o opt("RS") \o opt("RV")

restoreSOLUTION(file, numcells, table) ==
    LET fm == FirstMissing(file)
        fs == FirstMismatch(file, numcells)
    IN  IF fm # 0
        THEN [ err |-> [ kind |-> "MissingKeyword", name |-> MandatoryKeys[fm] ],
               sol |-> None ]
        ELSE IF fs # 0
        THEN [ err |-> [ kind |-> "SizeMismatch", name |-> MandatoryKeys[fs] ],
               sol |-> None ]
        ELSE [ err |-> NoError,
               sol |-> Some(InsertOptional(
                            InsertOptional(MandatoryFields(file, table), file, "RS"),
                            file, "RV")) ]

(***************************************************************************)
(* restoreOPM_XWEL                                                         *)
(***************************************************************************)
\* C++ integer division truncates toward zero.
CDiv(a, b) == IF a >= 0 THEN a \div b ELSE -((-a) \div b)

\* Windows with all of the remainder given to each perforation window.
WindowsUnhalved(size, num_wells, num_phases) ==
    LET wellrate_end == 2 * num_wells + (num_wells * num_phases)
        perf_elems   == size - wellrate_end
    IN  [ bhp           |-> << 0, num_wells >>,
          perf_pressure |-> << wellrate_end, wellrate_end + perf_elems >>,
          perf_rate     |-> << wellrate_end + perf_elems,
                               wellrate_end + perf_elems + perf_elems >>,
          temperature   |-> << num_wells, 2 * num_wells >>,
          well_rate     |-> << 2 * num_wells, wellrate_end >> ]

\* The pointers of restoreOPM_XWEL as offsets from xwel_data.
Windows(size, num_wells, num_phases) ==
    LET xwel_end       == size
        bhp_begin      == 0
        bhp_end        == bhp_begin + num_wells
        temp_begin     == bhp_end
        temp_end       == temp_begin + num_wells
        wellrate_begin == temp_end
        wellrate_end   == wellrate_begin + (num_wells * num_phases)
        remaining      == xwel_end - wellrate_end
        perf_elems     == CDiv(remaining, 2)
        perfpres_begin == wellrate_end
        perfpres_end   == perfpres_begin + perf_elems
        perfrate_begin == perfpres_end
        perfrate_end   == perfrate_begin + perf_elems
    IN  [ bhp           |-> << bhp_begin, bhp_end >>,
          perf_pressure |-> << perfpres_begin, perfpres_end >>,
          perf_rate     |-> << perfrate_begin, perfrate_end >>,
          temperature   |-> << temp_begin, temp_end >>,
          well_rate     |-> << wellrate_begin, wellrate_end >> ]

WellFields == { "bhp", "perf_pressure", "perf_rate", "temperature", "well_rate" }

\* std::vector< double >( begin, end ) over a buffer of size elements; an element
\* read from beyond the buffer has the indeterminate value g.
Range(size, w, g) ==
    [ i \in 1..(w[2] - w[1]) |->
        IF w[1] + i <= size THEN ecl_kw_get_double_ptr(size)[w[1] + i] ELSE g ]

\* The Wells value built from the five windows.
restoreOPM_XWEL(size, num_wells, num_phases, g) ==
    LET w == Windows(size, num_wells, num_phases)
    IN  [ f \in WellFields |-> Range(size, w[f], g) ]

\* The windows stay inside the buffer and none has its end before its begin.
InBounds(size, num_wells, num_phases) ==
    LET w == Windows(size, num_wells, num_phases)
    IN  \A f \in WellFields : 0 <= w[f][1] /\ w[f][1] <= w[f][2] /\ w[f][2] <= size

\* What a build does with the out-of-bounds windows: a range whose end precedes
\* its begin makes the vector constructor throw (length_error / bad_alloc) or
\* the process die; a range that only overruns the buffer yields indeterminate
\* elements or the process dies.
OutOfBoundsOutcomes(size, num_wells, num_phases) ==
    LET w == Windows(size, num_wells, num_phases)
    IN  IF \E f \in WellFields : w[f][2] < w[f][1]
        THEN { "thrown", "crashed" }
        ELSE { "returned", "crashed" }

Indeterminate == { 0, 777 }

(***************************************************************************)
(* init_from_restart_file                                                  *)
(***************************************************************************)
VARIABLES
    fileExists,   \* ecl_file_open finds the restart file
    unified,      \* ioConfig->getUNIFIN()
    hasBlock,     \* the file holds a block for restart_step
    unitType,     \* es.getDeckUnitSystem().getType()
    numcells,
    num_wells,
    num_phases,
    store,        \* keyword -> Absent or element count, per-cell keywords
    xwel,         \* the element count of OPM_XWEL
    pc,           \* "open", "select", "solution", "wells", "returned", "thrown", "crashed"
    file,         \* the ert_unique_ptr: "null", "open" or "closed"
    closes,       \* number of ecl_file_close calls
    log,          \* the accesses of the record store, in order
    err,          \* the exception that left the function
    solution,     \* the value of restoreSOLUTION
    checkpoint    \* the returned pair

inputs == << fileExists, unified, hasBlock, unitType, numcells, num_wells,
             num_phases, store, xwel >>
vars == << fileExists, unified, hasBlock, unitType, numcells, num_wells,
           num_phases, store, xwel, pc, file, closes, log, err, solution,
           checkpoint >>

UnitTypes == { "METRIC", "FIELD" }
Stores == [ CellKeys -> { Absent } \cup 0..MaxLen ]

InitLocals ==
    /\ pc = "open"
    /\ file = "null"
    /\ closes = 0
    /\ log = << >>
    /\ err = NoError
    /\ solution = None
    /\ checkpoint = None

\* Every per-cell store, cell count and unit system; a well record that fits.
InitCells ==
    /\ fileExists = TRUE
    /\ unified \in BOOLEAN
    /\ hasBlock = TRUE
    /\ unitType \in UnitTypes
    /\ numcells \in 0..MaxLen
    /\ store \in Stores
    /\ num_wells = 1
    /\ num_phases = 1
    /\ xwel = 5

\* Every well count, phase count and well record; a per-cell store that fits.
InitWells ==
    /\ fileExists = TRUE
    /\ unified = FALSE
    /\ hasBlock = TRUE
    /\ unitType = "METRIC"
    /\ numcells = MaxLen
    /\ store = [ k \in CellKeys |-> IF k = "RV" THEN Absent ELSE MaxLen ]
    /\ num_wells \in 0..MaxWells
    /\ num_phases \in 0..MaxPhases
    /\ xwel \in 0..MaxXwel

\* Every outcome of open and select, with a failure possible at each later step.
InitFile ==
    /\ fileExists \in BOOLEAN
    /\ unified \in BOOLEAN
    /\ hasBlock \in BOOLEAN
    /\ unitType \in UnitTypes
    /\ numcells = 1
    /\ store \in { s \in Stores :
                     /\ s["RS"] = Absent /\ s["RV"] = Absent
                     /\ \A i \in 1..Len(MandatoryKeys) :
                            s[MandatoryKeys[i]] \in { Absent, 0, 1 } }
    /\ num_wells = 1
    /\ num_phases = 1
    /\ xwel \in { 1, 2, 3, 5 }

\* The inputs are varied one group at a time: each group is read by one step of
\* the call only, and the steps run one after the other.  The file is taken to
\* hold an OPM_XWEL keyword (line 116 looks it up without ecl_file_has_kw).
Init == InitLocals /\ (InitCells \/ InitWells \/ InitFile)

\* Leaving by exception: the unique_ptr closes the file if it holds one.
Throw(e, accesses) ==
    /\ pc' = "thrown"
    /\ err' = e
    /\ IF file = "open"
       THEN /\ file' = "closed"
            /\ closes' = closes + 1
            /\ log' = Append(log \o accesses, << "close", "" >>)
       ELSE /\ log' = log \o accesses
            /\ UNCHANGED << file, closes >>

\* ecl_file_open and the null check.
OpenFile ==
    /\ pc = "open"
    /\ IF fileExists
       THEN /\ file' = "open"
            /\ pc' = "select"
            /\ log' = Append(log, << "open", "" >>)
            /\ UNCHANGED << closes, err >>
       ELSE /\ Throw([ kind |-> "FileNotFound", name |-> "" ], << << "open", "" >> >>)
    /\ UNCHANGED << solution, checkpoint >>
    /\ UNCHANGED inputs

\* SelectBlock going on to the extraction when the block is not found.
SelectBlockUnchecked ==
    /\ pc = "select"
    /\ pc' = "solution"
    /\ log' = IF unified THEN Append(log, << "select", "" >>) ELSE log
    /\ UNCHANGED << file, closes, err, solution, checkpoint >>
    /\ UNCHANGED inputs

\* unified && !ecl_file_select_rstblock_report_step
SelectBlock ==
    /\ pc = "select"
    /\ IF unified
       THEN IF hasBlock
            THEN /\ pc' = "solution"
                 /\ log' = Append(log, << "select", "" >>)
                 /\ UNCHANGED << file, closes, err >>
            ELSE Throw([ kind |-> "ReportStepNotFound", name |-> "" ],
                       << << "select", "" >> >>)
       ELSE /\ pc' = "solution"
            /\ UNCHANGED << file, closes, err, log >>
    /\ UNCHANGED << solution, checkpoint >>
    /\ UNCHANGED inputs

\* The first element of the returned pair.
RestoreSolution ==
    /\ pc = "solution"
    /\ LET r == restoreSOLUTION(store, numcells, conv_table(unitType))
           acc == SolutionAccesses(store, numcells)
       IN  IF r.err = NoError
           THEN /\ solution' = r.sol
                /\ pc' = "wells"
                /\ log' = log \o acc
                /\ UNCHANGED << file, closes, err >>
           ELSE /\ Throw(r.err, acc)
                /\ UNCHANGED solution
    /\ UNCHANGED checkpoint
    /\ UNCHANGED inputs

\* Leaving by return: the pair is built, then the unique_ptr closes the file.
Return(wells, accesses) ==
    /\ pc' = "returned"
    /\ checkpoint' = Some(<< solution[1], wells >>)
    /\ file' = "closed"
    /\ closes' = closes + 1
    /\ log' = Append(log \o accesses, << "close", "" >>)
    /\ UNCHANGED err

\* The second element of the returned pair, and the return.
RestoreWells ==
    /\ pc = "wells"
    /\ LET acc == << << "get", "OPM_XWEL" >> >>
       IN  IF InBounds(xwel, num_wells, num_phases)
           THEN Return(restoreOPM_XWEL(xwel, num_wells, num_phases, 0), acc)
           ELSE \E o \in OutOfBoundsOutcomes(xwel, num_wells, num_phases) :
                  CASE o = "returned" ->
                         \E g \in Indeterminate :
                            Return(restoreOPM_XWEL(xwel, num_wells, num_phases, g), acc)
                    [] o = "thrown" ->
                         /\ Throw([ kind |-> "length_error", name |-> "" ], acc)
                         /\ UNCHANGED checkpoint
                    [] o = "crashed" ->
                         /\ pc' = "crashed"
                         /\ log' = log \o acc
                         /\ UNCHANGED << file, closes, err, checkpoint >>
    /\ UNCHANGED solution
    /\ UNCHANGED inputs

Next == OpenFile \/ SelectBlock \/ RestoreSolution \/ RestoreWells

Spec == Init /\ [][Next]_vars

(***************************************************************************)
(* Properties                                                              *)
(***************************************************************************)
InLog(e) == \E i \in DOMAIN log : log[i] = e
SolutionRan == InLog(<< "has", "PRESSURE" >>)
WellsRan == InLog(<< "get", "OPM_XWEL" >>)
Terminal == pc \in { "returned", "thrown", "crashed" }

\* The mandatory keywords in the order the specification names them.
Order == << "PRESSURE", "TEMP", "SWAT", "SGAS" >>
FirstAbsentIs(i) ==
    /\ store[Order[i]] = Absent
    /\ \A j \in 1..(i - 1) : store[Order[j]] # Absent
AllPresent == \A i \in 1..4 : store[Order[i]] # Absent
FirstMismatchedIs(i) ==
    /\ store[Order[i]] # numcells
    /\ \A j \in 1..(i - 1) : store[Order[j]] = numcells
AllSized == \A i \in 1..4 : store[Order[i]] = numcells

\* C1: once restoreSOLUTION has run on a store lacking a mandatory record, the
\* call has failed with the missing-keyword error naming the first absent
\* record in the order PRESSURE, TEMP, SWAT, SGAS, and there is no Solution and
\* no Checkpoint, whatever the sizes of the present records and whether or not
\* RS and RV exist.
C1_MissingMandatoryFails ==
    \A i \in 1..4 :
        (SolutionRan /\ FirstAbsentIs(i)) =>
            /\ pc = "thrown"
            /\ err = [ kind |-> "MissingKeyword", name |-> Order[i] ]
            /\ solution = None
            /\ checkpoint = None

\* SGAS is the only absent record, PRESSURE has the wrong size, RS exists.
C1_Witness ==
    /\ SolutionRan
    /\ FirstAbsentIs(4)
    /\ store["PRESSURE"] # numcells
    /\ store["RS"] # Absent
    /\ err.name = "SGAS"

\* C2: with all four mandatory records present, restoreSOLUTION yields a
\* Solution exactly when every one of them has numcells elements; otherwise
\* the call fails with the size-mismatch error naming the first mismatched
\* record, with no Solution and no Checkpoint; a Solution's PRESSURE, TEMP,
\* SWAT and SGAS have length numcells.
C2_SizeValidation ==
    (SolutionRan /\ AllPresent) =>
        /\ AllSized =>
              /\ solution # None
              /\ \A i \in 1..4 : Len(solution[1][Order[i]]) = numcells
        /\ \A i \in 1..4 :
              FirstMismatchedIs(i) =>
                  /\ pc = "thrown"
                  /\ err = [ kind |-> "SizeMismatch", name |-> Order[i] ]
                  /\ solution = None
                  /\ checkpoint = None

\* PRESSURE fits, TEMP is too short and SGAS too long: TEMP is named.
C2_Witness ==
    /\ SolutionRan
    /\ AllPresent
    /\ store["PRESSURE"] = numcells
    /\ store["TEMP"] < numcells
    /\ store["SGAS"] > numcells
    /\ err = [ kind |-> "SizeMismatch", name |-> "TEMP" ]

\* Elements from + 1 .. from + n of the well-state record.
XwelSlice(from, n) == [ i \in 1..n |-> XwelValue(from + i) ]
Need == 2 * num_wells + num_wells * num_phases
Elements(seq) == { seq[i] : i \in DOMAIN seq }

\* C3: for a well-state record of L >= 2W + W*P elements the call returns, and
\* the Wells hold bhp = [0, W), temperature = [W, 2W), surface rate =
\* [2W, 2W + W*P), perf_pressure = the next R div 2 elements and perf_rate the
\* R div 2 after those, R = L - 2W - W*P; with R odd the last element of the
\* record is in no window and no error is raised.
C3_WellWindows ==
    (WellsRan /\ xwel >= Need) =>
        LET R == xwel - Need
            K == R \div 2
            w == checkpoint[1][2]
        IN  /\ pc = "returned"
            /\ err = NoError
            /\ w["bhp"] = XwelSlice(0, num_wells)
            /\ w["temperature"] = XwelSlice(num_wells, num_wells)
            /\ w["well_rate"] = XwelSlice(2 * num_wells, num_wells * num_phases)
            /\ w["perf_pressure"] = XwelSlice(Need, K)
            /\ w["perf_rate"] = XwelSlice(Need + K, K)
            /\ (R % 2 = 1) =>
                  \A f \in WellFields : XwelValue(xwel) \notin Elements(w[f])

\* Two wells, three phases, thirteen elements: R = 3, one perforation each.
C3_Witness ==
    /\ pc = "returned"
    /\ num_wells = 2
    /\ num_phases = 3
    /\ xwel = 13
    /\ Len(checkpoint[1][2]["perf_rate"]) = 1

\* C4: a well-state record of fewer than 2W + W*P elements makes the call
\* fail with a size-mismatch error and return no Wells, and no window of
\* returned Wells extends past the end of the record.
C4_ShortRecordRejected ==
    /\ (WellsRan /\ xwel < Need) =>
          /\ pc = "thrown"
          /\ err.kind = "SizeMismatch"
          /\ checkpoint = None
    /\ (pc = "returned") =>
          \A f \in WellFields :
              Windows(xwel, num_wells, num_phases)[f][2] <= xwel

\* C5: in every Solution (of a grid with at least one cell) every present
\* field, RS and RV included, has as many elements as there are cells, and
\* PRESSURE and TEMP are present.
C5_AllFieldsCellSized ==
    (numcells > 0 /\ solution # None) =>
        /\ { "PRESSURE", "TEMP" } \subseteq DOMAIN solution[1]
        /\ \A k \in DOMAIN solution[1] : Len(solution[1][k]) = numcells

\* C6: a Solution has the RS (RV) field exactly when the store has the RS (RV)
\* record, the field is the record's raw values with the record's own count,
\* and a count different from numcells does not make the extraction fail.
C6_OptionalFields ==
    /\ (solution # None) =>
          \A k \in { "RS", "RV" } :
              /\ (k \in DOMAIN solution[1]) <=> (store[k] # Absent)
              /\ (store[k] # Absent) =>
                    solution[1][k] = [ i \in 1..store[k] |-> RawValue(k, i) ]
    /\ (SolutionRan /\ AllPresent /\ AllSized) => solution # None

\* RS has a count other than numcells, RV is absent, and there is a Solution.
C6_Witness ==
    /\ solution # None
    /\ store["RS"] \notin { Absent, numcells }
    /\ store["RV"] = Absent
    /\ Len(solution[1]["RS"]) = store["RS"]

\* C7: in a Solution, PRESSURE[i] is to_si of the raw PRESSURE[i] in the
\* pressure dimension and TEMP[i] is to_si of the raw TEMP[i] in the
\* temperature dimension, each applied once with the table of the deck's unit
\* system; SWAT, SGAS, RS and RV hold the raw values.
C7_UnitNormalization ==
    (solution # None) =>
        LET sol == solution[1]
            table == IF unitType = "METRIC" THEN metric2si ELSE field2si
        IN  /\ \A i \in 1..numcells :
                  /\ sol["PRESSURE"][i] = to_si(table, "pressure", RawValue("PRESSURE", i))
                  /\ sol["TEMP"][i] = to_si(table, "temperature", RawValue("TEMP", i))
                  /\ sol["SWAT"][i] = RawValue("SWAT", i)
                  /\ sol["SGAS"][i] = RawValue("SGAS", i)
            /\ \A k \in { "RS", "RV" } \cap DOMAIN sol :
                  \A i \in DOMAIN sol[k] : sol[k][i] = RawValue(k, i)

\* A FIELD deck with at least two cells and an RS record.
C7_Witness ==
    /\ solution # None
    /\ unitType = "FIELD"
    /\ numcells >= 2
    /\ "RS" \in DOMAIN solution[1]
    /\ Len(solution[1]["RS"]) >= 1

\* The error of the first step that cannot succeed on the inputs.
ExpectedError ==
    IF ~fileExists THEN [ kind |-> "FileNotFound", name |-> "" ]
    ELSE IF unified /\ ~hasBlock THEN [ kind |-> "ReportStepNotFound", name |-> "" ]
    ELSE IF \E i \in 1..4 : FirstAbsentIs(i)
    THEN [ kind |-> "MissingKeyword",
           name |-> Order[CHOOSE i \in 1..4 : FirstAbsentIs(i)] ]
    ELSE IF \E i \in 1..4 : FirstMismatchedIs(i)
    THEN [ kind |-> "SizeMismatch",
           name |-> Order[CHOOSE i \in 1..4 : FirstMismatchedIs(i)] ]
    ELSE IF xwel < Need THEN [ kind |-> "SizeMismatch", name |-> "OPM_XWEL" ]
    ELSE NoError

\* C8: the call returns a pair only when open, block selection, Solution
\* extraction and Wells extraction all succeeded; when a step fails, the call
\* ends with that step's error and no Checkpoint.
C8_AllOrNothing ==
    /\ (pc = "returned") => (ExpectedError = NoError /\ checkpoint # None)
    /\ (Terminal /\ ExpectedError # NoError) =>
          /\ pc = "thrown"
          /\ err = ExpectedError
          /\ checkpoint = None

\* C9: once the file has been opened, every terminal state has the handle
\* closed, by exactly one close, and no record is read after the close.
C9_HandleClosedOnce ==
    /\ (Terminal /\ InLog(<< "open", "" >>) /\ fileExists) =>
          (file = "closed" /\ closes = 1)
    /\ \A i, j \in DOMAIN log :
          (log[i][1] = "close" /\ i < j) => log[j][1] \notin { "has", "get", "select" }

\* C10: the steps run in the order open, select (only when unified), Solution,
\* Wells: a unified file without the block fails with report-step-not-found
\* before any record is queried or read; block selection is never invoked for
\* a file that is not unified; OPM_XWEL is read only once there is a Solution.
C10_StepOrder ==
    /\ (fileExists /\ unified /\ ~hasBlock /\ pc \notin { "open", "select" }) =>
          /\ pc = "thrown"
          /\ err.kind = "ReportStepNotFound"
          /\ \A i \in DOMAIN log : log[i][1] \notin { "has", "get" }
    /\ ~unified => ~InLog(<< "select", "" >>)
    /\ (unified /\ pc \notin { "open", "select" } /\ fileExists) =>
          InLog(<< "select", "" >>)
    /\ \A i, j \in DOMAIN log :
          /\ (log[j][1] = "open") => j = 1
          /\ (log[j][1] = "select" /\ i < j) => log[i][1] = "open"
          /\ (log[i] = << "get", "OPM_XWEL" >> /\ log[j][1] \in { "has", "get" }) => j <= i
    /\ WellsRan => solution # None

\* A unified file that lacks the block although every mandatory record fits.
C10_Witness ==
    /\ fileExists /\ unified /\ ~hasBlock
    /\ AllPresent /\ AllSized
    /\ pc = "thrown"
    /\ log = << << "open", "" >>, << "select", "" >>, << "close", "" >> >>

====
